---- MODULE Spec2Model ----
(***************************************************************************)
(* Model of backend/open_webui/utils/executor.py: execute_code runs a code *)
(* snippet in a Docker container bound to a per-session workspace.  Every  *)
(* call of the Docker SDK or of the file system is one atomic step of the  *)
(* calling thread; several calls of execute_code may be in flight.         *)
(*                                                                         *)
(* Text is a sequence of tokens: a token is a word, " " or "\n" (white     *)
(* space), so that trimming and concatenation are computed, not assumed.   *)
(* A language tag is a sequence of characters, so that lower-casing is     *)
(* computed; a session id is a sequence of path tokens.  An optional       *)
(* argument is a record [present, text].                                   *)
(***************************************************************************)
EXTENDS Integers, Sequences, FiniteSets, TLC

\* ------------------------------------------------------------------ bounds
NumCalls == 2
MaxFaults == 2
ConcFaults == 1

\* --------------------------------------------------------------- constants
DEFAULT_TIMEOUT == 10
TIMEOUT_STATUS == 124
UNKNOWN_STATUS == -1

MEMORY_LIMIT == "128m"
SANDBOX_ROOT == <<"backend", "data", "sandboxes">>

Calls == 1..NumCalls

\* ----------------------------------------------------------- optional text
Absent == [present |-> FALSE, text |-> <<>>]
Given(t) == [present |-> TRUE, text |-> t]
\* Python truthiness of an optional string: None and "" are falsy.
Truthy(v) == v.present /\ v.text # <<>>
OrElse(v, d) == IF Truthy(v) THEN v.text ELSE d

\* --------------------------------------------------------------- text
IsSpace(t) == t \in {" ", "\n"}

RECURSIVE LStrip(_)
LStrip(s) == IF s # <<>> /\ IsSpace(Head(s)) THEN LStrip(Tail(s)) ELSE s

RECURSIVE RStrip(_)
RStrip(s) ==
    IF s # <<>> /\ IsSpace(s[Len(s)]) THEN RStrip(SubSeq(s, 1, Len(s) - 1)) ELSE s

\* A trim that forgets the trailing white space.
StripLeftOnly(s) == LStrip(s)

\* str.strip()
Strip(s) == RStrip(LStrip(s))

\* bytes.decode("utf-8", "replace"): an undecodable byte becomes U+FFFD.
Decode(b) == [i \in DOMAIN b |-> IF b[i] = "\\xff" THEN "U+FFFD" ELSE b[i]]

\* (stderr + "\n" if stderr else "") + more
AppendLine(stderr, more) == (IF stderr # <<>> THEN stderr \o <<"\n">> ELSE <<>>) \o more

\* str.lower() on a tag, character by character.
LowerChar(ch) ==
    CASE ch = "G" -> "g"
      [] ch = "O" -> "o"
      [] ch = "J" -> "j"
      [] ch = "S" -> "s"
      [] OTHER -> ch
Lower(s) == [i \in DOMAIN s |-> LowerChar(s[i])]

\* ------------------------------------------------------ language registry
TagPython == <<"p", "y", "t", "h", "o", "n">>
TagJavascript == <<"j", "a", "v", "a", "s", "c", "r", "i", "p", "t">>
TagJs == <<"j", "s">>
TagNode == <<"n", "o", "d", "e">>
TagGo == <<"g", "o">>
TagBash == <<"b", "a", "s", "h">>
TagShell == <<"s", "h", "e", "l", "l">>

PythonImage == "python:3.11-slim"
NodeImage == "node:20-slim"
GoImage == "golang:1.21-alpine"
AlpineImage == "alpine:latest"

LANG_KEYS == {TagPython, TagJavascript, TagJs, TagNode, TagGo, TagBash, TagShell}

LANG_CONFIG(tag) ==
    CASE tag = TagPython -> [image |-> PythonImage, base_cmd |-> <<"python", "-c">>]
      [] tag = TagJavascript -> [image |-> NodeImage, base_cmd |-> <<"node", "-e">>]
      [] tag = TagJs -> [image |-> NodeImage, base_cmd |-> <<"node", "-e">>]
      [] tag = TagNode -> [image |-> NodeImage, base_cmd |-> <<"node", "-e">>]
      [] tag = TagGo -> [image |-> GoImage, base_cmd |-> <<"sh", "-c">>]
      [] tag = TagBash -> [image |-> AlpineImage, base_cmd |-> <<"sh", "-c">>]
      [] tag = TagShell -> [image |-> AlpineImage, base_cmd |-> <<"sh", "-c">>]

\* A resolution that forgets to lower-case the tag.
ResolveLangAsGiven(language) == OrElse(language, TagPython)

\* lang = (language or "python").lower()
ResolveLang(language) == Lower(OrElse(language, TagPython))

\* LANG_CONFIG.get(lang, LANG_CONFIG["python"])
ResolveProfile(lang) ==
    IF lang \in LANG_KEYS THEN LANG_CONFIG(lang) ELSE LANG_CONFIG(TagPython)

\* The command of lines 76-89.  The last argument is kept as a sequence of
\* lines; for go it is the here-document script around the code.
GoRunLine == "cd /workspace && go run /workspace/main.go"
HereDocOpen == "cat <<'EOF' >/workspace/main.go"
HereDocEnd == "EOF"
GoRunner(code) == <<HereDocOpen>> \o code \o <<HereDocEnd, GoRunLine>>

BuildCmd(lang, base_cmd, code) ==
    IF lang = TagGo THEN [argv |-> <<"sh", "-c">>, script |-> GoRunner(code)]
    ELSE IF lang \in {TagBash, TagShell} THEN [argv |-> <<"sh", "-c">>, script |-> code]
    ELSE [argv |-> base_cmd, script |-> code]

\* ---------------------------------------------------------------- workspace
\* A session name that is the text of the argument, None included.
SessionNameOfText(session_id) ==
    IF session_id.present /\ session_id.text # <<>> THEN session_id.text ELSE <<"None">>

\* session_name = session_id or "default"
SessionName(session_id) == OrElse(session_id, <<"default">>)

\* The components of a path text: the tokens between the separators.
PathParts(name) == SelectSeq(name, LAMBDA t : t \notin {"/", "."})
IsAbsolute(name) == name # <<>> /\ name[1] = "/"

\* pathlib's "/" operator: an absolute right operand replaces the left one.
PathJoin(base, name) ==
    IF IsAbsolute(name) THEN PathParts(name) ELSE base \o PathParts(name)

\* The directory the operating system reaches through a path: ".." steps up.
RECURSIVE OsResolve(_)
OsResolve(p) ==
    IF p = <<>> THEN <<>>
    ELSE LET init == OsResolve(SubSeq(p, 1, Len(p) - 1))
             last == p[Len(p)]
         IN  IF last = ".."
             THEN (IF init = <<>> THEN <<>> ELSE SubSeq(init, 1, Len(init) - 1))
             ELSE Append(init, last)

\* session_path = SANDBOX_ROOT / session_name
SessionPath(session_id) == PathJoin(SANDBOX_ROOT, SessionName(session_id))

\* ------------------------------------------------------------------ inputs
\* A program is a sequence of statements (the lines of the code text):
\*   "print" writes " hi\n" to stdout, "warn" writes "w <bad byte>\n" to
\*   stderr, "save" creates the file "data" in the working directory,
\*   "exit124" exits with status 124, "loop" never returns.
CodeHello == <<"print">>
CodeFail == <<"warn", "exit124">>
CodeLoop == <<"warn", "loop">>
CodeSave == <<"save", "print">>
\* A code text with a line that reads EOF.
CodeEof == <<"print", "EOF", "save">>
Codes == {CodeHello, CodeFail, CodeLoop, CodeSave, CodeEof}

Languages ==
    {Absent, Given(<<>>), Given(TagPython), Given(TagJavascript), Given(TagJs),
     Given(TagNode), Given(TagGo), Given(TagBash), Given(TagShell),
     Given(<<"G", "O">>), Given(<<"J", "S">>), Given(<<"r", "u", "b", "y">>)}

\* Session ids are caller-supplied text: "../x", "s1/../default" and "/tmp"
\* are among them.
IdParent == <<"..", "/", "x">>
IdDetour == <<"s1", "/", "..", "/", "default">>
IdAbsolute == <<"/", "tmp">>
SessionIds ==
    {Absent, Given(<<>>), Given(<<"default">>), Given(<<"s1">>),
     Given(IdParent), Given(IdDetour), Given(IdAbsolute)}

Timeouts == {DEFAULT_TIMEOUT}

Request == [code : Codes, language : Languages, timeout : Timeouts, session_id : SessionIds]

\* The requests of the model's runs: every language tag with one program and
\* one session, and every program and session with the python and go tags.
Requests ==
    {r \in Request : r.code = CodeHello /\ r.session_id = Absent}
    \cup {r \in Request : r.language \in {Given(TagPython), Given(TagGo)}}

\* What the /verify route passes: code and language, no timeout, no session.
VerifyRequest ==
    [code |-> CodeHello, language |-> Given(TagPython), timeout |-> DEFAULT_TIMEOUT,
     session_id |-> Absent]

\* The requests of the runs with several calls in flight: one program under
\* two sessions, and the go strategy with two programs in one session.
ConcRequests ==
    {r \in Request :
        \/ r.code = CodeSave /\ r.language = Given(TagPython)
              /\ r.session_id \in {Absent, Given(<<"s1">>)}
        \/ r.code \in {CodeHello, CodeLoop} /\ r.language = Given(TagGo)
              /\ r.session_id = Given(<<"default">>)}

\* --------------------------------------------------------------- exceptions
\* What a step inside the try block may raise, by the except clause that
\* catches it (ImageNotFound outside _ensure_image is an APIError).
TryFaults == {"ReadTimeout", "ContainerError", "APIError", "Exception"}
\* ContainerError is what containers.run raises; the daemon's other calls
\* fail with a read timeout of the HTTP client, an APIError or anything else.
RaisedBy(op) == IF op = "run" THEN TryFaults ELSE TryFaults \ {"ContainerError"}
ContainerErrorStatuses == {125}

\* str(err)
Message(kind) ==
    CASE kind = "ReadTimeout" -> <<"read", " ", "timed", " ", "out">>
      [] kind = "ContainerError" -> <<"command", " ", "failed">>
      [] kind = "APIError" -> <<"500", " ", "server", " ", "error">>
      [] OTHER -> <<"connection", " ", "refused">>

TimeoutNotice(timeout) ==
    <<"Execution", " ", "timed", " ", "out", " ", "after", " ", ToString(timeout), "s.">>
ApiErrorNotice(kind) == <<"Docker", " ", "API", " ", "error:", " ">> \o Message(kind)
UnhandledNotice(kind) == <<"Unhandled", " ", "error:", " ">> \o Message(kind)

\* ------------------------------------------------------------------- state
VARIABLES
    req,        \* req[c]: the arguments of call c
    pc,         \* pc[c]: the step call c is about to take
    loc,        \* loc[c]: the local variables of call c
    result,     \* result[c]: what call c returned
    hist,       \* hist[c]: the steps call c attempted, with their outcomes
    fs,         \* the directories under the sandbox root: path -> directory
    images,     \* the images in the local cache
    containers, \* every container ever launched, by id (a removed one stays, marked)
    faults      \* how many more infrastructure failures may be injected

vars == <<req, pc, loc, result, hist, fs, images, containers, faults>>

NoContainer == 0
NoResult == [stdout |-> <<>>, stderr |-> <<>>, exit_code |-> 0, set |-> FALSE]

\* lines 55-59 and 66-71
Locals(r) ==
    LET lang == ResolveLang(r.language)
        profile == ResolveProfile(lang)
    IN  [lang |-> lang,
         image |-> profile.image,
         base_cmd |-> profile.base_cmd,
         session_path |-> SessionPath(r.session_id),
         container |-> NoContainer,
         timed_out |-> FALSE,
         stdout |-> <<>>,
         stderr |-> <<>>,
         exit_code |-> {},
         escaping |-> FALSE]

InitWith(first, rest, budget) ==
    /\ req \in {r \in [Calls -> first \cup rest] :
                    r[1] \in first /\ \A c \in Calls \ {1} : r[c] \in rest}
    /\ pc = [c \in Calls |-> "idle"]
    /\ loc = [c \in Calls |-> Locals(req[c])]
    /\ result = [c \in Calls |-> NoResult]
    /\ hist = [c \in Calls |-> <<>>]
    /\ fs = <<>>
    /\ images = {PythonImage}
    /\ containers = <<>>
    /\ faults = budget

Init == InitWith(Requests, {VerifyRequest}, MaxFaults)
InitConc == InitWith(ConcRequests, ConcRequests, ConcFaults)

\* The state of a call's container as a step of the call finds it.
Seen(c) ==
    IF loc[c].container = NoContainer THEN "none"
    ELSE IF containers[loc[c].container].removed THEN "removed"
    ELSE containers[loc[c].container].state

NoData == [status |-> 0, out |-> <<>>, err |-> <<>>]

\* hist records each attempted step: the operation, its outcome ("ok" or the
\* exception raised), the container's state then, and what the step read.
LogData(c, op, res, data) ==
    hist' = [hist EXCEPT ![c] =
                Append(@, [op |-> op, res |-> res, seen |-> Seen(c), data |-> data])]
Log(c, op, res) == LogData(c, op, res, NoData)

Inject == faults > 0 /\ faults' = faults - 1
NoInject == UNCHANGED faults

\* -------------------------------------------------------------- file system
\* A directory created by mkdir has the creating process's default mode, under
\* which the container's user 1000:1000 cannot write; chmod(0o777) opens it.
NewDir == [writable |-> FALSE, files |-> <<>>]

\* The directories on the way to p (parents=True creates the missing ones).
Prefixes(p) == {SubSeq(p, 1, n) : n \in 1..Len(p)}

\* A creation that replaces an existing directory by an empty one.
MkdirFresh(dirs, path) ==
    LET target == OsResolve(path)
    IN  [q \in Prefixes(target) \ (DOMAIN dirs \ {target}) |-> NewDir] @@ dirs

\* Path.mkdir(parents=True, exist_ok=True): creates what is missing and leaves
\* an existing directory as it is.
MkdirP(dirs, path) ==
    LET target == OsResolve(path)
        missing == {q \in Prefixes(target) : q \notin DOMAIN dirs}
    IN  [q \in missing |-> NewDir] @@ dirs

Chmod777(dirs, path) == [dirs EXCEPT ![OsResolve(path)].writable = TRUE]

WriteFile(dirs, path, name, content) ==
    [dirs EXCEPT ![path].files = (name :> content) @@ @]

\* ----------------------------------------------------- inside the container
\* The outcome of running a program from a state acc of the container.
RECURSIVE RunProgram(_, _, _)
RunProgram(prog, writable, acc) ==
    IF prog = <<>> THEN [acc EXCEPT !.state = "exited", !.status = 0]
    ELSE LET st == Head(prog)
         IN  CASE st = "print" ->
                    RunProgram(Tail(prog), writable,
                               [acc EXCEPT !.out = @ \o <<" ", "hi", "\n">>])
               [] st = "warn" ->
                    RunProgram(Tail(prog), writable,
                               [acc EXCEPT !.err = @ \o <<"w", " ", "\\xff", "\n">>])
               [] st = "save" ->
                    IF writable
                    THEN RunProgram(Tail(prog), writable,
                                    [acc EXCEPT !.wrote = @ \cup {"data"}])
                    ELSE [acc EXCEPT !.err = @ \o <<"denied", "\n">>,
                                     !.state = "exited", !.status = 1]
               [] st = "exit124" -> [acc EXCEPT !.state = "exited", !.status = 124]
               [] st = "loop" -> [acc EXCEPT !.state = "hung"]
               [] OTHER -> [acc EXCEPT !.err = @ \o <<"syntax", " ", "error", "\n">>,
                                       !.state = "exited", !.status = 1]

\* The files a finished or hung program has created, written into its mount.
RECURSIVE SaveAll(_, _, _)
SaveAll(dirs, path, names) ==
    IF names = {} THEN dirs
    ELSE LET n == CHOOSE x \in names : TRUE
         IN  SaveAll(WriteFile(dirs, path, n, <<"saved">>), path, names \ {n})

\* The here-document of a script: the lines up to the first terminator line.
RECURSIVE HereDocBody(_)
HereDocBody(lines) ==
    IF lines = <<>> \/ Head(lines) = HereDocEnd THEN <<>>
    ELSE <<Head(lines)>> \o HereDocBody(Tail(lines))

\* The lines of the script that follow the here-document: the shell runs
\* them as commands, the last of them being the go run line.
RECURSIVE HereDocRest(_)
HereDocRest(lines) ==
    IF lines = <<>> THEN <<>>
    ELSE IF Head(lines) = HereDocEnd THEN Tail(lines)
    ELSE HereDocRest(Tail(lines))

\* sh running a line that is no command of the image.
RECURSIVE ShellRun(_, _)
ShellRun(lines, acc) ==
    IF lines = <<>> THEN acc
    ELSE ShellRun(Tail(lines),
                  [acc EXCEPT !.shell = Append(@, Head(lines)),
                              !.err = @ \o <<"sh:", " ", Head(lines), ":", " ",
                                             "not", " ", "found", "\n">>])

IsHereDocScript(cmd) ==
    cmd.argv = <<"sh", "-c">> /\ cmd.script # <<>> /\ Head(cmd.script) = HereDocOpen

\* The container's process starts: an interpreter runs the code; the go
\* script first writes its here-document to main.go.
ContainerStart(k) ==
    /\ k \in DOMAIN containers
    /\ ~containers[k].removed
    /\ containers[k].state = "started"
    /\ LET kr == containers[k]
           dir == fs[kr.mount]
       IN  IF IsHereDocScript(kr.cmd)
           THEN IF dir.writable
                THEN /\ fs' = WriteFile(fs, kr.mount, "main.go",
                                        HereDocBody(Tail(kr.cmd.script)))
                     /\ containers' =
                            [containers EXCEPT
                                ![k].state = "written",
                                ![k].created =
                                    Append(@, HereDocBody(Tail(kr.cmd.script)))]
                ELSE /\ fs' = fs
                     /\ containers' =
                            [containers EXCEPT
                                ![k].state = "written",
                                ![k].err = @ \o <<"sh:", " ", "can't", " ", "create", "\n">>]
           ELSE LET done == RunProgram(kr.cmd.script, dir.writable,
                                       [kr EXCEPT !.ran = kr.cmd.script])
                IN  /\ containers' = [containers EXCEPT ![k] = done]
                    /\ fs' = SaveAll(fs, kr.mount, done.wrote)
    /\ UNCHANGED <<req, pc, loc, result, hist, images, faults>>

\* The rest of the go script: the lines between the here-document and the
\* go run line run as shell commands, then go run /workspace/main.go runs
\* what the file holds at that moment.
ContainerGoRun(k) ==
    /\ k \in DOMAIN containers
    /\ ~containers[k].removed
    /\ containers[k].state = "written"
    /\ LET rest == HereDocRest(Tail(containers[k].cmd.script))
           kr == ShellRun(SubSeq(rest, 1, Len(rest) - 1), containers[k])
           dir == fs[kr.mount]
           done == IF "main.go" \in DOMAIN dir.files
                   THEN RunProgram(dir.files["main.go"], dir.writable,
                                   [kr EXCEPT !.ran = dir.files["main.go"]])
                   ELSE [kr EXCEPT !.err = @ \o <<"no", " ", "such", " ", "file", "\n">>,
                                   !.state = "exited", !.status = 1]
       IN  /\ containers' = [containers EXCEPT ![k] = done]
           /\ fs' = SaveAll(fs, kr.mount, done.wrote)
    /\ UNCHANGED <<req, pc, loc, result, hist, images, faults>>

\* ------------------------------------------------------------- execute_code
\* The except clauses of lines 112-131 (the kill of line 117 is a step of
\* its own, Kill).
Handle(l, kind, status) ==
    CASE kind = "ReadTimeout" ->
            [l EXCEPT !.timed_out = TRUE, !.exit_code = {TIMEOUT_STATUS}]
      [] kind = "ContainerError" ->
            [l EXCEPT !.exit_code = {status}, !.stderr = Message(kind)]
      [] kind = "APIError" ->
            [l EXCEPT !.exit_code = {UNKNOWN_STATUS}, !.stderr = ApiErrorNotice(kind)]
      [] OTHER ->
            [l EXCEPT !.exit_code = {UNKNOWN_STATUS}, !.stderr = UnhandledNotice(kind)]

\* An except clause that returns at once, skipping the teardown.
AfterHandlerNoTeardown(l, kind) == "prune"

\* An except clause that goes on to the log fetch without the kill.
AfterHandlerSkipKill(l, kind) == IF l.container = NoContainer THEN "prune" ELSE "logs"

\* An except clause that starts the try block again when nothing was launched.
AfterHandlerRetry(l, kind) ==
    IF l.container = NoContainer THEN "images_get"
    ELSE IF kind = "ReadTimeout" THEN "kill"
    ELSE "logs"

\* Where control goes after an except clause: the kill of a timed-out
\* container, else the log fetch, which a call without a container skips.
AfterHandler(l, kind) ==
    IF l.container = NoContainer THEN "prune"
    ELSE IF kind = "ReadTimeout" THEN "kill"
    ELSE "logs"

\* A step of the try block raises an exception of the given kind.
Raise(c, op, kind) ==
    \E status \in ContainerErrorStatuses :
        LET l == Handle(loc[c], kind, status)
        IN  /\ loc' = [loc EXCEPT ![c] = l]
            /\ pc' = [pc EXCEPT ![c] = AfterHandler(l, kind)]
            /\ Log(c, op, kind)

\* lines 152-159
Assemble(l, timeout) ==
    LET stderr == IF l.timed_out THEN AppendLine(l.stderr, TimeoutNotice(timeout))
                  ELSE l.stderr
    IN  [stdout |-> Strip(l.stdout),
         stderr |-> Strip(stderr),
         exit_code |-> IF l.exit_code # {} THEN CHOOSE x \in l.exit_code : TRUE
                       ELSE UNKNOWN_STATUS,
         set |-> TRUE]

\* A clause that reports the failure of a best-effort step to the caller.
SwallowIntoResult(l, op) ==
    [l EXCEPT !.exit_code = {UNKNOWN_STATUS},
              !.stderr = AppendLine(@, <<"cleanup", " ", "failed:", " ", op>>)]

\* The clauses that swallow the failure of a best-effort step (lines 63-64,
\* 118-119, 145-146, 149-150): the locals stay as they are.
Swallow(l, op) == l

\* The call enters execute_code (lines 55-59).
StartCall(c) ==
    /\ pc[c] = "idle"
    /\ pc' = [pc EXCEPT ![c] = "mkdir"]
    /\ loc' = [loc EXCEPT ![c] = Locals(req[c])]
    /\ UNCHANGED <<req, result, hist, fs, images, containers, faults>>

\* line 60; a failure is raised to the caller.
Mkdir(c) ==
    /\ pc[c] = "mkdir"
    /\ \/ /\ fs' = MkdirP(fs, loc[c].session_path)
          /\ pc' = [pc EXCEPT ![c] = "chmod"]
          /\ Log(c, "mkdir", "ok")
          /\ NoInject
       \/ /\ Inject
          /\ pc' = [pc EXCEPT ![c] = "raised"]
          /\ Log(c, "mkdir", "OSError")
          /\ fs' = fs
    /\ UNCHANGED <<req, loc, result, images, containers>>

\* lines 61-64; a failure is swallowed.
Chmod(c) ==
    /\ pc[c] = "chmod"
    /\ \/ /\ fs' = Chmod777(fs, loc[c].session_path)
          /\ Log(c, "chmod", "ok")
          /\ UNCHANGED loc
          /\ NoInject
       \/ /\ Inject
          /\ Log(c, "chmod", "OSError")
          /\ loc' = [loc EXCEPT ![c] = Swallow(@, "chmod")]
          /\ fs' = fs
    /\ pc' = [pc EXCEPT ![c] = "from_env"]
    /\ UNCHANGED <<req, result, images, containers>>

\* lines 66-71; a failure is raised to the caller.
FromEnv(c) ==
    /\ pc[c] = "from_env"
    /\ \/ /\ pc' = [pc EXCEPT ![c] = "images_get"]
          /\ Log(c, "from_env", "ok")
          /\ NoInject
       \/ /\ Inject
          /\ pc' = [pc EXCEPT ![c] = "raised"]
          /\ Log(c, "from_env", "DockerException")
    /\ UNCHANGED <<req, loc, result, fs, images, containers>>

\* line 35: client.images.get(image)
ImagesGet(c) ==
    /\ pc[c] = "images_get"
    /\ \/ /\ loc[c].image \in images
          /\ pc' = [pc EXCEPT ![c] = "run"]
          /\ Log(c, "images_get", "ok")
          /\ UNCHANGED loc
          /\ NoInject
       \/ /\ loc[c].image \notin images
          /\ pc' = [pc EXCEPT ![c] = "images_pull"]
          /\ Log(c, "images_get", "ImageNotFound")
          /\ UNCHANGED loc
          /\ NoInject
       \/ /\ Inject
          /\ \E kind \in RaisedBy("images_get") : Raise(c, "images_get", kind)
    /\ UNCHANGED <<req, result, fs, images, containers>>

\* lines 36-37: client.images.pull(image)
ImagesPull(c) ==
    /\ pc[c] = "images_pull"
    /\ \/ /\ images' = images \cup {loc[c].image}
          /\ pc' = [pc EXCEPT ![c] = "run"]
          /\ Log(c, "images_pull", "ok")
          /\ UNCHANGED loc
          /\ NoInject
       \/ /\ Inject
          /\ \E kind \in RaisedBy("images_pull") : Raise(c, "images_pull", kind)
          /\ UNCHANGED images
    /\ UNCHANGED <<req, result, fs, containers>>

\* lines 76-107: build the command and launch the container.
NewContainer(c) ==
    [owner |-> c,
     image |-> loc[c].image,
     cmd |-> BuildCmd(loc[c].lang, loc[c].base_cmd, req[c].code),
     mount |-> OsResolve(loc[c].session_path),
     state |-> "started",
     status |-> 0,
     out |-> <<>>,
     err |-> <<>>,
     wrote |-> {},
     ran |-> <<>>,
     created |-> <<>>,
     shell |-> <<>>,
     removed |-> FALSE]

Run(c) ==
    /\ pc[c] = "run"
    /\ \/ /\ containers' = Append(containers, NewContainer(c))
          /\ loc' = [loc EXCEPT ![c].container = Len(containers) + 1]
          /\ pc' = [pc EXCEPT ![c] = "wait"]
          /\ Log(c, "run", "ok")
          /\ NoInject
       \/ /\ Inject
          /\ \E kind \in RaisedBy("run") : Raise(c, "run", kind)
          /\ UNCHANGED containers
    /\ UNCHANGED <<req, result, fs, images>>

\* lines 109-110: container.wait(timeout=timeout)
Wait(c) ==
    /\ pc[c] = "wait"
    /\ LET kr == containers[loc[c].container]
       IN  \/ /\ ~kr.removed /\ kr.state = "exited"
              /\ loc' = [loc EXCEPT ![c].exit_code = {kr.status}]
              /\ pc' = [pc EXCEPT ![c] = "logs"]
              /\ LogData(c, "wait", "ok", [NoData EXCEPT !.status = kr.status])
              /\ NoInject
           \/ /\ ~kr.removed /\ kr.state # "exited"
              /\ Raise(c, "wait", "ReadTimeout")
              /\ NoInject
           \/ /\ kr.removed
              /\ Raise(c, "wait", "APIError")
              /\ NoInject
           \/ /\ Inject
              /\ \E kind \in RaisedBy("wait") \ {"ReadTimeout"} : Raise(c, "wait", kind)
    /\ UNCHANGED <<req, result, fs, images, containers>>

\* lines 115-119: container.kill(); a failure is swallowed.
Kill(c) ==
    /\ pc[c] = "kill"
    /\ LET k == loc[c].container
       IN  \/ /\ ~containers[k].removed /\ containers[k].state # "exited"
              /\ containers' = [containers EXCEPT ![k].state = "exited"]
              /\ Log(c, "kill", "ok")
              /\ UNCHANGED loc
              /\ NoInject
           \/ /\ containers[k].removed \/ containers[k].state = "exited"
              /\ Log(c, "kill", "APIError")
              /\ loc' = [loc EXCEPT ![c] = Swallow(@, "kill")]
              /\ UNCHANGED containers
              /\ NoInject
           \/ /\ Inject
              /\ Log(c, "kill", "APIError")
              /\ loc' = [loc EXCEPT ![c] = Swallow(@, "kill")]
              /\ UNCHANGED containers
    /\ pc' = [pc EXCEPT ![c] = "logs"]
    /\ UNCHANGED <<req, result, fs, images>>

\* lines 133-140: fetch and decode the container's stdout and stderr.  A
\* failure leaves the try statement through its finally clause.
FetchLogs(l, kr) ==
    [l EXCEPT !.stdout = Decode(kr.out),
              !.stderr = AppendLine(l.stderr, Decode(kr.err))]

\* The fetch without its finally clause: a failure leaves at once.
AfterFetchNoFinally(l) == IF l.escaping THEN "raised" ELSE "remove"

\* line 141: the finally clause runs whether the fetch raised or not.
AfterFetch(l) == "remove"

Logs(c) ==
    /\ pc[c] = "logs"
    /\ LET kr == containers[loc[c].container]
       IN  \/ /\ ~kr.removed
              /\ loc' = [loc EXCEPT ![c] = FetchLogs(loc[c], kr)]
              /\ LogData(c, "logs", "ok", [NoData EXCEPT !.out = kr.out, !.err = kr.err])
              /\ NoInject
           \/ /\ kr.removed
              /\ loc' = [loc EXCEPT ![c].escaping = TRUE]
              /\ Log(c, "logs", "APIError")
              /\ NoInject
           \/ /\ Inject
              /\ loc' = [loc EXCEPT ![c].escaping = TRUE]
              /\ Log(c, "logs", "APIError")
    /\ pc' = [pc EXCEPT ![c] = AfterFetch(loc'[c])]
    /\ UNCHANGED <<req, result, fs, images, containers>>

\* lines 142-146: container.remove(force=True); a failure is swallowed.
Remove(c) ==
    /\ pc[c] = "remove"
    /\ LET k == loc[c].container
       IN  \/ /\ ~containers[k].removed
              /\ containers' = [containers EXCEPT ![k].removed = TRUE]
              /\ Log(c, "remove", "ok")
              /\ UNCHANGED loc
              /\ NoInject
           \/ /\ containers[k].removed
              /\ Log(c, "remove", "APIError")
              /\ loc' = [loc EXCEPT ![c] = Swallow(@, "remove")]
              /\ UNCHANGED containers
              /\ NoInject
           \/ /\ Inject
              /\ Log(c, "remove", "APIError")
              /\ loc' = [loc EXCEPT ![c] = Swallow(@, "remove")]
              /\ UNCHANGED containers
    /\ pc' = [pc EXCEPT ![c] = "prune"]
    /\ UNCHANGED <<req, result, fs, images>>

\* client.containers.prune(filters={"status": "exited"})
PruneExited(ks) ==
    [k \in DOMAIN ks |->
        IF ks[k].state = "exited" THEN [ks[k] EXCEPT !.removed = TRUE] ELSE ks[k]]

\* lines 147-159: the prune sweep (a failure is swallowed), then the pending
\* exception of the log fetch is raised, or the result is returned.
Finish(c, l) ==
    IF l.escaping
    THEN /\ pc' = [pc EXCEPT ![c] = "raised"]
         /\ UNCHANGED result
    ELSE /\ pc' = [pc EXCEPT ![c] = "returned"]
         /\ result' = [result EXCEPT ![c] = Assemble(l, req[c].timeout)]

Prune(c) ==
    /\ pc[c] = "prune"
    /\ \/ /\ containers' = PruneExited(containers)
          /\ Log(c, "prune", "ok")
          /\ loc' = loc
          /\ NoInject
       \/ /\ Inject
          /\ Log(c, "prune", "APIError")
          /\ loc' = [loc EXCEPT ![c] = Swallow(@, "prune")]
          /\ UNCHANGED containers
    /\ Finish(c, loc'[c])
    /\ UNCHANGED <<req, fs, images>>

\* ------------------------------------------------------------ specification
\* The steps of a call that is in flight.
Step(c) ==
    \/ Mkdir(c)
    \/ Chmod(c)
    \/ FromEnv(c)
    \/ ImagesGet(c)
    \/ ImagesPull(c)
    \/ Run(c)
    \/ Wait(c)
    \/ Kill(c)
    \/ Logs(c)
    \/ Remove(c)
    \/ Prune(c)

\* The processes of the launched containers.
ProcessStarts == \E k \in DOMAIN containers : ContainerStart(k)
GoRuns == \E k \in DOMAIN containers : ContainerGoRun(k)
Environment == ProcessStarts \/ GoRuns

\* One call of execute_code, with any request.
StartFirst(c) == c = 1 /\ StartCall(c)

Next ==
    \/ \E c \in Calls : StartFirst(c) \/ Step(c)
    \/ Environment

Spec == Init /\ [][Next]_vars

\* Calls issued from independent threads: any number of them in flight.
NextConc ==
    \/ \E c \in Calls : StartCall(c) \/ Step(c)
    \/ Environment

SpecConc == InitConc /\ [][NextConc]_vars

\* ------------------------------------------------------------------ claims
Finished(c) == pc[c] \in {"returned", "raised"}
Did(c, op, res) == \E i \in DOMAIN hist[c] : hist[c][i].op = op /\ hist[c][i].res = res
Tried(c, op) == \E i \in DOMAIN hist[c] : hist[c][i].op = op
Launched(c) == loc[c].container # NoContainer
Box(c) == containers[loc[c].container]
Running(kr) == ~kr.removed /\ kr.state # "exited"
Contains(s, t) == \E i \in 0..(Len(s) - Len(t)) : SubSeq(s, i + 1, i + Len(t)) = t
IsPrefix(t, s) == Len(t) <= Len(s) /\ SubSeq(s, 1, Len(t)) = t
HasTimeoutNotice(c) == Contains(result[c].stderr, TimeoutNotice(req[c].timeout))

\* C1: every call of execute_code ends by returning a result; no failure of
\* any step leaves it as a raised exception.
C1_AlwaysReturnsResult ==
    \A c \in Calls : Finished(c) => pc[c] = "returned" /\ result[c].set

\* C2 as stated: after a call that launched a container has finished, that
\* container is removed or stopped.
C2_NotRunningAfterCall ==
    \A c \in Calls : Finished(c) /\ Launched(c) => ~Running(Box(c))

\* C2 as amended: after a call that launched a container has finished, a
\* forced removal of the container has been attempted, and the container is
\* still running only if that removal failed (and, after a timeout, the kill
\* failed too).
C2_RemovalAttempted ==
    \A c \in Calls :
        Finished(c) /\ Launched(c) =>
            /\ Tried(c, "remove")
            /\ Did(c, "remove", "ok") => Box(c).removed
            /\ Running(Box(c)) =>
                  /\ Did(c, "remove", "APIError")
                  /\ Tried(c, "kill") => Did(c, "kill", "APIError")

C2_Witness ==
    \E c \in Calls :
        /\ Finished(c) /\ Launched(c)
        /\ Did(c, "wait", "APIError")
        /\ Did(c, "remove", "ok")
        /\ Box(c).removed /\ Box(c).state = "hung"

\* C3: a call whose program never exits, with the image available, the launch
\* successful and the wait expiring, returns a result with exit_code 124 and
\* the timeout notice in stderr, after a kill was issued.
C3_LoopReturnsTimeout ==
    \A c \in Calls :
        /\ Finished(c)
        /\ req[c].code = CodeLoop
        /\ Did(c, "run", "ok")
        /\ Did(c, "wait", "ReadTimeout")
        => /\ pc[c] = "returned"
           /\ Tried(c, "kill")
           /\ result[c].exit_code = TIMEOUT_STATUS
           /\ HasTimeoutNotice(c)

\* C4: when every step succeeds and the program exits on its own, the result
\* holds the program's exit status, its trimmed stdout and its trimmed
\* stderr with nothing added; a program that prints and exits 0 gives its
\* text, exit_code 0 and an empty stderr.
AllStepsOk(c) ==
    \A i \in DOMAIN hist[c] :
        \/ hist[c][i].res = "ok"
        \/ hist[c][i].op = "images_get" /\ hist[c][i].res = "ImageNotFound"

C4_NaturalExitResult ==
    \A c \in Calls :
        pc[c] = "returned" /\ AllStepsOk(c) =>
            /\ result[c].exit_code = Box(c).status
            /\ result[c].stdout = Strip(Decode(Box(c).out))
            /\ result[c].stderr = Strip(Decode(Box(c).err))
            /\ req[c].code = CodeHello =>
                  /\ result[c].stdout = <<"hi">>
                  /\ result[c].stderr = <<>>
                  /\ result[c].exit_code = 0
            /\ req[c].code = CodeFail =>
                  /\ result[c].stdout = <<>>
                  /\ result[c].stderr = <<"w", " ", "U+FFFD">>
                  /\ result[c].exit_code = 124

C4_Witness ==
    \E c \in Calls :
        /\ pc[c] = "returned" /\ AllStepsOk(c)
        /\ req[c].code = CodeFail
        /\ Box(c).ran = CodeFail
        /\ result[c].exit_code = 124

\* C5: workspaces persist across calls: a file that the program of one call
\* created is present in the directory mounted into every call of the same
\* session (an absent session id meaning the "default" workspace), and no
\* step removes a workspace directory.
NamedSession(session_id) == IF session_id.present THEN session_id.text ELSE <<"default">>

C5_WorkspacePersists ==
    /\ \A c \in Calls : Tried(c, "chmod") => OsResolve(loc[c].session_path) \in DOMAIN fs
    /\ \A k, j \in DOMAIN containers :
          NamedSession(req[containers[k].owner].session_id)
              = NamedSession(req[containers[j].owner].session_id)
          => /\ containers[j].mount \in DOMAIN fs
             /\ containers[k].wrote \subseteq DOMAIN fs[containers[j].mount].files

C5_Witness ==
    \E k, j \in DOMAIN containers :
        /\ k < j
        /\ req[containers[k].owner].session_id = Absent
        /\ req[containers[j].owner].session_id = Given(<<"default">>)
        /\ "data" \in containers[k].wrote
        /\ pc[containers[k].owner] = "returned"
        /\ pc[containers[j].owner] = "returned"
        /\ "data" \in DOMAIN fs[containers[j].mount].files

\* C6: the result carries exit_code 124 with the timeout notice if and only
\* if the wait on a launched container expired; a program that exits with
\* status 124 gets no notice, and a failure before the wait step yields
\* neither exit_code 124 nor the notice.
C6_TimeoutOnlyFromWait ==
    \A c \in Calls :
        pc[c] = "returned" =>
            /\ HasTimeoutNotice(c) <=> Did(c, "wait", "ReadTimeout")
            /\ HasTimeoutNotice(c) => result[c].exit_code = TIMEOUT_STATUS
            /\ Did(c, "wait", "ok") => ~HasTimeoutNotice(c)
            /\ ~Tried(c, "wait") =>
                  ~HasTimeoutNotice(c) /\ result[c].exit_code # TIMEOUT_STATUS

\* C7: in every result the program's captured stderr comes first and the
\* synthesized notices after it.
C7_ProgramStderrFirst ==
    \A c \in Calls :
        pc[c] = "returned" =>
            \A i \in DOMAIN hist[c] :
                hist[c][i].op = "logs" /\ hist[c][i].res = "ok"
                => IsPrefix(Strip(Decode(hist[c][i].data.err)), result[c].stderr)

\* C8: for every language tag the image launched and the command built are
\* those of one profile: python, node (javascript, js, node), go (the script
\* that writes the code to main.go and then runs it), shell (bash, shell), in
\* any letter case; any other tag gets the python profile.
ExpectedProfile(language) ==
    CASE language \in {Given(TagJavascript), Given(TagJs), Given(TagNode),
                       Given(<<"J", "S">>)} -> "node"
      [] language \in {Given(TagGo), Given(<<"G", "O">>)} -> "go"
      [] language \in {Given(TagBash), Given(TagShell)} -> "shell"
      [] OTHER -> "python"

C8_ProfileConsistent ==
    \A k \in DOMAIN containers :
        LET kr == containers[k]
            code == req[kr.owner].code
            profile == ExpectedProfile(req[kr.owner].language)
        IN  CASE profile = "node" ->
                    /\ kr.image = NodeImage
                    /\ kr.cmd = [argv |-> <<"node", "-e">>, script |-> code]
              [] profile = "go" ->
                    /\ kr.image = GoImage
                    /\ kr.cmd.argv = <<"sh", "-c">>
                    /\ kr.cmd.script =
                          <<"cat <<'EOF' >/workspace/main.go">> \o code
                          \o <<"EOF", "cd /workspace && go run /workspace/main.go">>
              [] profile = "shell" ->
                    /\ kr.image = AlpineImage
                    /\ kr.cmd = [argv |-> <<"sh", "-c">>, script |-> code]
              [] OTHER ->
                    /\ kr.image = PythonImage
                    /\ kr.cmd = [argv |-> <<"python", "-c">>, script |-> code]

C8_Witness ==
    \E k \in DOMAIN containers :
        /\ req[containers[k].owner].language = Given(<<"r", "u", "b", "y">>)
        /\ containers[k].image = PythonImage
        /\ pc[containers[k].owner] = "returned"
        /\ result[containers[k].owner].stdout = <<"hi">>

\* The best-effort steps, and what a call went through apart from them.
Housekeeping == {"chmod", "kill", "remove", "prune"}
Essential(c) == SelectSeq(hist[c], LAMBDA e : e.op \notin Housekeeping)
Outcomes(c) == [i \in DOMAIN Essential(c) |-> [op |-> Essential(c)[i].op, res |-> Essential(c)[i].res]]
Readings(c) == [i \in DOMAIN Essential(c) |-> Essential(c)[i].data]
Schedule(c) == [i \in DOMAIN hist[c] |-> [op |-> hist[c][i].op, seen |-> hist[c][i].seen]]
HousekeepingFailed(c) ==
    \E i \in DOMAIN hist[c] : hist[c][i].op \in Housekeeping /\ hist[c][i].res # "ok"

\* C9 as stated: a failed best-effort step is never escalated: the call
\* returns unless another step fails, and two runs of the same code that
\* differ only in the outcome of best-effort steps return the same result.
C9_SameResultAsWhenHousekeepingSucceeded ==
    /\ \A c \in Calls :
          pc[c] = "raised" => \E i \in DOMAIN Essential(c) : Essential(c)[i].res # "ok"
    /\ \A c, d \in Calls :
          /\ pc[c] = "returned" /\ pc[d] = "returned"
          /\ req[c].code = req[d].code
          /\ req[c].language = req[d].language
          /\ req[c].timeout = req[d].timeout
          /\ Outcomes(c) = Outcomes(d)
          /\ Schedule(c) = Schedule(d)
          => result[c] = result[d]

\* C9 as amended: a failed best-effort step is never escalated: the call
\* returns unless another step fails, and the result is assembled from the
\* outcomes of the other steps and from the output and status read from the
\* container, whatever the best-effort steps did; only what the container
\* itself produced may differ after a failed chmod or a failed kill.
C9_HousekeepingNeverEscalated ==
    /\ \A c \in Calls :
          pc[c] = "raised" => \E i \in DOMAIN Essential(c) : Essential(c)[i].res # "ok"
    /\ \A c, d \in Calls :
          /\ pc[c] = "returned" /\ pc[d] = "returned"
          /\ req[c].timeout = req[d].timeout
          /\ Outcomes(c) = Outcomes(d)
          /\ Readings(c) = Readings(d)
          => result[c] = result[d]

C9_Witness ==
    \E c, d \in Calls :
        /\ pc[c] = "returned" /\ pc[d] = "returned"
        /\ HousekeepingFailed(c) /\ Did(c, "kill", "APIError")
        /\ ~HousekeepingFailed(d)
        /\ Outcomes(c) = Outcomes(d)
        /\ Readings(c) = Readings(d)
        /\ result[c] = result[d]

\* C10: creating the workspace is idempotent: a successful mkdir step leaves
\* the session's directory in place, empty if it is new and with its
\* contents and those of every other directory unchanged if it exists; the
\* step fails only by a failure of the file system, never because the
\* directory exists.
MkdirStep(c) == pc[c] = "mkdir" /\ pc'[c] # "mkdir"

C10_MkdirIdempotent ==
    [][\A c \in Calls :
          MkdirStep(c) =>
              LET p == OsResolve(SessionPath(req[c].session_id))
              IN  /\ pc'[c] = "raised" => faults' < faults
                  /\ pc'[c] = "chmod" =>
                        /\ p \in DOMAIN fs'
                        /\ p \notin DOMAIN fs => fs'[p].files = <<>>
                        /\ \A q \in DOMAIN fs : fs'[q] = fs[q]]_vars

C10_Witness ==
    \E c, d \in Calls :
        /\ c # d
        /\ req[c].session_id = req[d].session_id
        /\ pc[c] = "returned"
        /\ "data" \in DOMAIN fs[OsResolve(loc[c].session_path)].files
        /\ Did(d, "mkdir", "ok")
        /\ Len(hist[d]) = 1

\* How many times call c attempted the step op.
Count(c, op) == Cardinality({i \in DOMAIN hist[c] : hist[c][i].op = op})

\* C11: with several calls in flight, the prune sweep of one call never
\* removes the container of another call that has not yet fetched its
\* output: no call finds its container removed when it waits for it, kills
\* it or fetches its logs.
C11_SweepSparesCallsInFlight ==
    \A c \in Calls :
        /\ Launched(c) /\ pc[c] \in {"wait", "kill", "logs"} => ~Box(c).removed
        /\ \A i \in DOMAIN hist[c] :
              hist[c][i].op \in {"wait", "kill", "logs"} => hist[c][i].seen # "removed"

\* C12: the forced removal of a call's container is attempted exactly once
\* when the launch returned a container, on every exit path (natural exit,
\* timeout, failed wait, failed log fetch), and never when it returned none.
C12_TeardownExactlyOnce ==
    \A c \in Calls :
        /\ Count(c, "remove") <= 1
        /\ ~Launched(c) => Count(c, "remove") = 0
        /\ Finished(c) /\ Launched(c) => Count(c, "remove") = 1

C12_Witness ==
    \E c \in Calls :
        /\ pc[c] = "raised" /\ Launched(c)
        /\ Did(c, "logs", "APIError")
        /\ Count(c, "remove") = 1

\* C13: when the image lookup or the image pull raises, nothing is launched,
\* no wait, kill, log fetch or removal is attempted, and the call returns
\* exit_code -1 with a non-empty stderr.  (A lookup that answers "not found"
\* leads to the pull and is no failure.)
EnsureImageFailed(c) ==
    \E i \in DOMAIN hist[c] :
        /\ hist[c][i].op \in {"images_get", "images_pull"}
        /\ hist[c][i].res \notin {"ok", "ImageNotFound"}

C13_EnsureImageFailureIsInfra ==
    \A c \in Calls :
        Finished(c) /\ EnsureImageFailed(c) =>
            /\ ~Launched(c)
            /\ \A op \in {"run", "wait", "kill", "logs", "remove"} : ~Tried(c, op)
            /\ pc[c] = "returned"
            /\ result[c].exit_code = UNKNOWN_STATUS
            /\ result[c].stderr # <<>>

\* C14: when the launch raises, no wait and no kill is attempted, and the
\* call returns exit_code -1 with a non-empty stderr and an empty stdout.
LaunchFailed(c) == \E i \in DOMAIN hist[c] : hist[c][i].op = "run" /\ hist[c][i].res # "ok"

C14_LaunchFailureSkipsWait ==
    \A c \in Calls :
        Finished(c) /\ LaunchFailed(c) =>
            /\ ~Tried(c, "wait") /\ ~Tried(c, "kill")
            /\ pc[c] = "returned"
            /\ result[c].exit_code = UNKNOWN_STATUS
            /\ result[c].stderr # <<>>
            /\ result[c].stdout = <<>>

\* C15: within one call, a kill comes before the log fetch and a timed-out
\* wait is followed by the kill before any fetch; the log fetch comes before
\* the forced removal, which is never attempted without it; the prune comes
\* after the removal attempt whenever there is a container to remove.
Before(c, a, b) ==
    \A i, j \in DOMAIN hist[c] : hist[c][i].op = a /\ hist[c][j].op = b => i < j

C15_TeardownOrdered ==
    \A c \in Calls :
        /\ Before(c, "kill", "logs")
        /\ Before(c, "logs", "remove")
        /\ Before(c, "remove", "prune")
        /\ Did(c, "wait", "ReadTimeout") /\ Tried(c, "logs") => Tried(c, "kill")
        /\ Tried(c, "remove") => Tried(c, "logs")
        /\ Tried(c, "prune") /\ Launched(c) => Tried(c, "remove")

C15_Witness ==
    \E c \in Calls :
        /\ pc[c] = "returned"
        /\ Did(c, "wait", "ReadTimeout")
        /\ Did(c, "kill", "ok") /\ Did(c, "logs", "ok")
        /\ Did(c, "remove", "ok") /\ Did(c, "prune", "ok")
        /\ HasTimeoutNotice(c)

\* C16: in one call the image lookup, the image pull, the launch and the
\* wait are each attempted at most once, and after one of them raised none of
\* them is attempted again.  (A lookup that answers "not found" is followed
\* by the pull; that is the lookup's answer, not a failure.)
TrySteps == {"images_get", "images_pull", "run", "wait"}

C16_NoRetries ==
    \A c \in Calls :
        /\ \A op \in TrySteps : Count(c, op) <= 1
        /\ \A i, j \in DOMAIN hist[c] :
              /\ i < j
              /\ hist[c][i].op \in TrySteps
              /\ hist[c][i].res \notin {"ok", "ImageNotFound"}
              => hist[c][j].op \notin TrySteps

C16_Witness ==
    \E c \in Calls :
        /\ pc[c] = "returned"
        /\ Did(c, "images_get", "ImageNotFound")
        /\ Did(c, "images_pull", "APIError")
        /\ result[c].exit_code = UNKNOWN_STATUS

\* C17: a go call runs the code passed to that same call: from the write of
\* main.go to the run of it the file holds what the call's container wrote,
\* and what go run ran is the call's code, also with another go call in
\* flight in the same workspace.
C17_GoRunsOwnCode ==
    \A k \in DOMAIN containers :
        LET kr == containers[k]
        IN  IsHereDocScript(kr.cmd) /\ kr.created # <<>> =>
                /\ kr.state = "written" /\ ~kr.removed =>
                      fs[kr.mount].files["main.go"] = kr.created[1]
                /\ kr.ran # <<>> => kr.ran = req[kr.owner].code

\* C18: the workspace of a call is a direct child of the sandbox root, and
\* no other session id value (absent, empty, "default", ids with path
\* separators or "..") is bound to the same directory.
Workspace(session_id) == OsResolve(SessionPath(session_id))

C18_OneWorkspacePerSessionId ==
    \A c \in Calls :
        Did(c, "mkdir", "ok") =>
            LET w == OsResolve(loc[c].session_path)
            IN  /\ w \in DOMAIN fs
                /\ Len(w) = Len(SANDBOX_ROOT) + 1
                /\ SubSeq(w, 1, Len(SANDBOX_ROOT)) = SANDBOX_ROOT
                /\ \A s \in SessionIds \ {req[c].session_id} : Workspace(s) # w

\* C19: with the go strategy the file main.go that the script writes holds
\* the code verbatim, and the shell runs no line of the code as a command,
\* also for a code with a line that reads EOF.
C19_GoFileVerbatim ==
    \A k \in DOMAIN containers :
        LET kr == containers[k]
        IN  IsHereDocScript(kr.cmd) =>
                /\ \A i \in DOMAIN kr.created : kr.created[i] = req[kr.owner].code
                /\ kr.shell = <<>>

====
